---- MODULE Spec2Model ----
(***************************************************************************)
(* EasyTier IPv6 delegation core.                                          *)
(*                                                                         *)
(*   easytier/src/common/ipv6_allocator.rs  Ipv6Allocator (Spec, SeqSpec)  *)
(*   easytier/src/ipv6_delegate.rs          Ipv6DelegateServer (DelegSpec, *)
(*       ConcSpec for requests in flight together), list_onlink_prefixes   *)
(*       alone (DiscSpec), configure_source_policy_for_addr (PolicySpec)   *)
(*                                                                         *)
(* Addresses are numbers.  An Option is a sequence of length at most one:  *)
(* None is << >> and Some(a) is << a >>.                                   *)
(***************************************************************************)
EXTENDS Integers, Sequences, FiniteSets, TLC

(***************************************************************************)
(* Bounds of the model.                                                    *)
(***************************************************************************)
\* threads that call Ipv6Allocator::allocate on the one allocator
NumThreads == 2
\* requester (peer) ids that ask the allocator for an address
NumPeers == 4
\* host-bit widths 0 .. MaxHostBits of the allocator's prefix
MaxHostBits == 2

\* tasks that run Ipv6DelegateServer::request_delegation
NumTasks == 1
\* requests the delegate server accepts in one behaviour
MaxRequests == 2
\* requester_peer_id values 1 .. NumRequesters of delegation requests
NumRequesters == 2
\* count values 0 .. MaxCount of delegation requests
MaxCount == 2
\* entries getifaddrs() returns in one enumeration
MaxIfaddrs == 2
\* bits of one of the four 16-bit segments that carry the u64 iid
SegBits == 1
\* requests that request_delegation handles at the same time (ConcSpec)
NumConcurrent == 2

Threads == 1 .. NumThreads
Peers == 1 .. NumPeers
Tasks == 1 .. NumTasks
Requesters == 1 .. NumRequesters
Counts == 0 .. MaxCount
ConcTasks == 1 .. NumConcurrent

None == << >>
Some(a) == << a >>

RECURSIVE Pow2(_)
Pow2(n) == IF n = 0 THEN 1 ELSE 2 * Pow2(n - 1)

\* placeholders of a thread that is not inside a call: no guard held, no
\* peer_id argument, no local addr
NoThread == 0
NoPeer == 0
NoAddr == 0

VARIABLES
    hostBits,   \* 128 - prefix.network_length()
    prefixBase, \* prefix.first_address() as a number
    next,       \* Ipv6Allocator.next, the cursor behind the Mutex
    mutex,      \* the thread that holds the Mutex guard, or NoThread
    assigned,   \* Ipv6Allocator.assigned: peer id -> address
    pc,         \* per thread: position inside allocate
    peer,       \* per thread: the peer_id argument of the call
    addr,       \* per thread: the local `addr` of the call
    missed,     \* per thread: the call found no cached address at line 26
    ret,        \* thread -> the value its last completed call returned
    returned,   \* history: every <<peer id, address>> a call has returned
    enabled,    \* config flag enable_ipv6_delegate_server
    digests,    \* SHA-256 as met so far: hashed bytes -> first 8 digest bytes
    os,         \* kernel state: sysctls, routes, proxy neighbours, addresses
    osFails,    \* the kinds of OS command that fail on this host
    dpc,        \* per task: position inside request_delegation
    request,    \* per task: the RequestDelegationRequest
    prefixes,   \* per task: the local `prefixes` of alloc_addrs_for_peer
    out,        \* per task: the local `out`, returned as `addrs`
    used_iids,  \* per task: the local `used_iids`
    perturbed,  \* per task: indexes of `out` whose iid the while loop changed
    inst,       \* per task: index in `addrs` the install loop is at
    tun,        \* per task: the local `tun` of the install loop
    oslog,      \* per task: the OS commands its request has issued, in order
    resp,       \* per task: the value request_delegation returned
    nreq,       \* requests accepted so far
    delegated,  \* history: <<requester, address, perturbed>> of all responses
    getifaddrs, \* what getifaddrs() returned to list_onlink_prefixes
    listed,     \* the Option of what list_onlink_prefixes returned
    ppc,        \* position inside configure_source_policy_for_addr
    paddr,      \* its argument _addr
    ptun,       \* its local `tun`
    plog,       \* the commands its call has run, in order
    pret,       \* the Option of what its last call returned
    policy      \* kernel policy routing: source rules and per-table routes

allocVars == << hostBits, prefixBase, next, mutex, assigned, pc, peer, addr,
                missed, ret, returned >>

delegVars == << enabled, digests, os, osFails, dpc, request, prefixes, out, used_iids,
                perturbed, inst, tun, oslog, resp, nreq, delegated >>

discVars == << getifaddrs, listed >>

policyVars == << ppc, paddr, ptun, plog, pret, policy >>

notAllocVars == << delegVars, discVars, policyVars >>
notDelegVars == << allocVars, discVars, policyVars >>

vars == << allocVars, delegVars, discVars, policyVars >>

(***************************************************************************)
(* Ipv6Allocator                                                           *)
(***************************************************************************)
\* let max_hosts: u128 = 1u128 << host_bits  (host_bits is at most
\* MaxHostBits here; a /0 prefix, whose shift by 128 overflows, is outside
\* the model)
MaxHosts == Pow2(hostBits)

\* DashMap::insert: add or overwrite the entry of key k (also used for the
\* model's own per-thread record of return values)
MapInsert(m, k, v) == [x \in (DOMAIN m) \cup {k} |-> IF x = k THEN v ELSE m[x]]

\* a cursor that a full prefix lets through once more
IsFullOffByOne(idx) == idx > MaxHosts

\* if *idx >= max_hosts
IsFull(idx) == idx >= MaxHosts

\* a cursor that does not move
NextCursorStuck(idx) == idx

\* *idx += 1
NextCursor(idx) == idx + 1

\* host numbers counted from zero: the first one is the base address
HostAddrZeroBased(idx) == prefixBase + idx - 1

\* let base = u128::from(self.prefix.first_address());
\* let addr = Ipv6Addr::from(base + *idx);
HostAddr(idx) == prefixBase + idx

\* a cache that forgets to record the entry
CacheInsertDropped(peer_id, a) == assigned

\* self.assigned.insert(peer_id, addr)
CacheInsert(peer_id, a) == MapInsert(assigned, peer_id, a)

\* Ipv6Allocator::new(prefix): cursor 1, empty cache, no call running.  The
\* prefix is the caller's: any width 0 .. MaxHostBits, base aligned to it.
AllocInit ==
    /\ hostBits \in 0 .. MaxHostBits
    /\ prefixBase \in {0, Pow2(hostBits)}
    /\ next = 1
    /\ mutex = NoThread
    /\ assigned = << >>
    /\ pc = [t \in Threads |-> "idle"]
    /\ peer = [t \in Threads |-> NoPeer]
    /\ addr = [t \in Threads |-> NoAddr]
    /\ missed = [t \in Threads |-> FALSE]
    /\ ret = << >>
    /\ returned = {}

\* a thread enters allocate(peer_id)
Call(t, p) ==
    /\ pc[t] = "idle"
    /\ pc' = [pc EXCEPT ![t] = "get"]
    /\ peer' = [peer EXCEPT ![t] = p]
    /\ UNCHANGED << hostBits, prefixBase, next, mutex, assigned, addr, missed,
                    ret, returned >>
    /\ UNCHANGED notAllocVars

\* if let Some(addr) = self.assigned.get(&peer_id) { return Some(*addr); }
CacheGet(t) ==
    /\ pc[t] = "get"
    /\ IF peer[t] \in DOMAIN assigned
       THEN /\ ret' = MapInsert(ret, t, Some(assigned[peer[t]]))
            /\ returned' = returned \cup {<< peer[t], assigned[peer[t]] >>}
            /\ pc' = [pc EXCEPT ![t] = "idle"]
            /\ peer' = [peer EXCEPT ![t] = NoPeer]
            /\ UNCHANGED missed
       ELSE /\ missed' = [missed EXCEPT ![t] = TRUE]
            /\ pc' = [pc EXCEPT ![t] = "lock"]
            /\ UNCHANGED << ret, returned, peer >>
    /\ UNCHANGED << hostBits, prefixBase, next, mutex, assigned, addr >>
    /\ UNCHANGED notAllocVars

\* let mut idx = self.next.lock().unwrap(): blocks while another thread
\* holds the guard
Lock(t) ==
    /\ pc[t] = "lock"
    /\ mutex = NoThread
    /\ mutex' = t
    /\ pc' = [pc EXCEPT ![t] = "check"]
    /\ UNCHANGED << hostBits, prefixBase, next, assigned, peer, addr, missed,
                    ret, returned >>
    /\ UNCHANGED notAllocVars

\* if *idx >= max_hosts { return None; }  (the guard is dropped on return)
\* let addr = Ipv6Addr::from(base + *idx);
CheckFull(t) ==
    /\ pc[t] = "check"
    /\ IF IsFull(next)
       THEN /\ ret' = MapInsert(ret, t, None)
            /\ mutex' = NoThread
            /\ pc' = [pc EXCEPT ![t] = "idle"]
            /\ peer' = [peer EXCEPT ![t] = NoPeer]
            /\ missed' = [missed EXCEPT ![t] = FALSE]
            /\ UNCHANGED addr
       ELSE /\ addr' = [addr EXCEPT ![t] = HostAddr(next)]
            /\ pc' = [pc EXCEPT ![t] = "advance"]
            /\ UNCHANGED << ret, mutex, peer, missed >>
    /\ UNCHANGED << hostBits, prefixBase, next, assigned, returned >>
    /\ UNCHANGED notAllocVars

\* *idx += 1;
Advance(t) ==
    /\ pc[t] = "advance"
    /\ next' = NextCursor(next)
    /\ pc' = [pc EXCEPT ![t] = "insert"]
    /\ UNCHANGED << hostBits, prefixBase, mutex, assigned, peer, addr, missed,
                    ret, returned >>
    /\ UNCHANGED notAllocVars

\* self.assigned.insert(peer_id, addr); Some(addr)  (the guard is dropped)
Insert(t) ==
    /\ pc[t] = "insert"
    /\ assigned' = CacheInsert(peer[t], addr[t])
    /\ ret' = MapInsert(ret, t, Some(addr[t]))
    /\ returned' = returned \cup {<< peer[t], addr[t] >>}
    /\ mutex' = NoThread
    /\ pc' = [pc EXCEPT ![t] = "idle"]
    /\ peer' = [peer EXCEPT ![t] = NoPeer]
    /\ missed' = [missed EXCEPT ![t] = FALSE]
    /\ addr' = [addr EXCEPT ![t] = NoAddr]
    /\ UNCHANGED << hostBits, prefixBase, next >>
    /\ UNCHANGED notAllocVars

(***************************************************************************)
(* Ipv6DelegateServer: addresses, interfaces, SHA-256                      *)
(*                                                                         *)
(* An IPv6 address is [class, net, host]: `class` stands for the leading   *)
(* bits that is_multicast .. is_unicast_link_local test, `net` for the     *)
(* rest of segments 0..3 and `host` is segments 4..7, each of SegBits      *)
(* bits.  An interface name is the sequence of its characters.             *)
(***************************************************************************)
NumSegs == 4
IidBits == NumSegs * SegBits
IidMod == Pow2(IidBits)
SegMod == Pow2(SegBits)

NetmaskLen == 64
HostLen == 128
\* a netmask whose one-bits are not contiguous
NonContiguous == 0 - 1

Eth0 == << "e", "t", "h", "0" >>
Eth1 == << "e", "t", "h", "1" >>
Docker0 == << "d", "o", "c", "k", "e", "r", "0" >>
Tun0 == << "t", "u", "n", "0" >>

\* str::starts_with
StartsWith(name, p) == Len(name) >= Len(p) /\ SubSeq(name, 1, Len(p)) = p

\* the name prefixes of lines 42-49
SkippedNames ==
    { << "l", "o" >>, << "t", "u", "n" >>, << "u", "t", "u", "n" >>,
      << "w", "g" >>, << "d", "o", "c", "k", "e", "r" >>,
      << "v", "e", "t", "h" >>, << "b", "r", "-" >>,
      << "v", "i", "r", "b", "r" >> }

\* u64 -> the four segments, most significant first (lines 142-145)
IidSegments(iid) ==
    << (iid \div (SegMod * SegMod * SegMod)) % SegMod,
       (iid \div (SegMod * SegMod)) % SegMod,
       (iid \div SegMod) % SegMod,
       iid % SegMod >>

\* segments 4..7 of an address read back as a number
HostValue(a) ==
    ((a.host[1] * SegMod + a.host[2]) * SegMod + a.host[3]) * SegMod
        + a.host[4]

Ipv6(class, net, hostValue) ==
    [class |-> class, net |-> net, host |-> IidSegments(hostValue)]

\* Ipv6Inet::first_address: the host bits of a /64 cleared
FirstAddress(inet) == [inet.address EXCEPT !.host = << 0, 0, 0, 0 >>]

\* lines 141-151: the prefix's segments 4..7 overwritten with the iid
AssembleAddr(pfx, iid) ==
    [address |-> [FirstAddress(pfx) EXCEPT !.host = IidSegments(iid)],
     network_length |-> HostLen]

\* pnet::ipnetwork::ip_mask_to_prefix(mask): Err for a non-contiguous mask
MaskToPrefix(mask) == IF mask = NonContiguous THEN None ELSE Some(mask)

\* Result::unwrap_or
UnwrapOr(opt, dflt) == IF opt = None THEN dflt ELSE opt[1]

\* lines 62-66
NotGlobal(ip) ==
    ip.class \in {"multicast", "loopback", "unspecified", "unique_local",
                  "link_local"}

\* one getifaddrs entry: interface_name, address, netmask (both Options of
\* [family, ip]; the ip of a netmask is its prefix length or NonContiguous)
Ifaddr(name, address, netmask) ==
    [interface_name |-> name, address |-> address, netmask |-> netmask]
Sock6(ip) == Some([family |-> "Inet6", ip |-> ip])
Sock4(ip) == Some([family |-> "Inet", ip |-> ip])
\* an IPv4 address, in the shape of the model's addresses
Ipv4(n) == [class |-> "ipv4", net |-> n, host |-> << 0, 0, 0, 0 >>]

\* the body of the for loop of list_onlink_prefixes for one entry: the
\* entries it pushes
OnlinkOf(iface) ==
    IF \E p \in SkippedNames : StartsWith(iface.interface_name, p)
    THEN << >>
    ELSE IF iface.address = None \/ iface.netmask = None
    THEN << >>
    ELSE IF ~(iface.address[1].family = "Inet6"
              /\ iface.netmask[1].family = "Inet6")
    THEN << >>
    ELSE IF NotGlobal(iface.address[1].ip)
    THEN << >>
    ELSE IF UnwrapOr(MaskToPrefix(iface.netmask[1].ip), NetmaskLen)
                # NetmaskLen
    THEN << >>
    ELSE << [iface |-> iface.interface_name,
             inet |-> [address |-> iface.address[1].ip,
                       network_length |-> NetmaskLen]] >>

\* list_onlink_prefixes over the entries getifaddrs returned
RECURSIVE ListOnlinkPrefixes(_)
ListOnlinkPrefixes(addrs) ==
    IF addrs = << >> THEN << >>
    ELSE OnlinkOf(Head(addrs)) \o ListOnlinkPrefixes(Tail(addrs))

\* the entries the delegate server's hosts carry: two interfaces on the same
\* /64, one on another /64, and entries that each fail one test of
\* list_onlink_prefixes
IfaddrEntries ==
    { Ifaddr(Eth0, Sock6(Ipv6("global", 1, 1)), Sock6(NetmaskLen)),
      Ifaddr(Eth1, Sock6(Ipv6("global", 1, 2)), Sock6(NetmaskLen)),
      Ifaddr(Eth1, Sock6(Ipv6("global", 2, 1)), Sock6(NetmaskLen)),
      Ifaddr(Docker0, Sock6(Ipv6("global", 2, 2)), Sock6(NetmaskLen)),
      Ifaddr(Eth0, Sock6(Ipv6("link_local", 1, 1)), Sock6(NetmaskLen)),
      Ifaddr(Eth1, Sock4(Ipv4(1)), Sock4(24)),
      Ifaddr(Eth0, Sock6(Ipv6("global", 2, 1)), Sock6(HostLen)),
      Ifaddr(Eth0, None, None) }

\* the sequences of at most n distinct elements of S
RECURSIVE SeqsUpTo(_, _)
SeqsUpTo(S, n) ==
    IF n = 0 THEN {<< >>}
    ELSE LET shorter == SeqsUpTo(S, n - 1)
             Range(q) == {q[i] : i \in DOMAIN q}
         IN  shorter \cup
             UNION {{Append(q, e) : e \in S \ Range(q)} : q \in shorter}

\* what one call of getifaddrs() may return
GetIfaddrs == SeqsUpTo(IfaddrEntries, MaxIfaddrs)

\* the first 8 bytes of a digest, as a u64, that the model draws
DigestValues == {0, IidMod - 1}

\* the bytes fed to the hasher: requester_peer_id.to_be_bytes() followed by
\* pfx.first_address().octets()
HashInput(requester, pfx) == << requester, FirstAddress(pfx) >>

\* a hash that is seeded anew on every call
Sha256Reseeded(bytes) == DigestValues

\* hasher.finalize(): SHA-256 is a function, so bytes hashed before give the
\* digest they gave before
Sha256(bytes) ==
    IF bytes \in DOMAIN digests THEN {digests[bytes]} ELSE DigestValues

\* iid |= 1
OrOne(iid) == IF iid % 2 = 0 THEN iid + 1 ELSE iid

\* the while loop left out
AvoidUsedSkipped(iid, salt, used) == iid

\* while used_iids.contains(&iid) { iid = iid.wrapping_add(1 + salt);
\*                                  salt = salt.wrapping_add(1); }
RECURSIVE AvoidUsed(_, _, _)
AvoidUsed(iid, salt, used) ==
    IF iid \in used
    THEN AvoidUsed((iid + 1 + salt) % IidMod, (salt + 1) % IidMod, used)
    ELSE iid

\* a count that is ignored
WantAll(count, len) == len

\* let want = if count == 0 { len } else { count.min(len) }
Want(count, len) ==
    IF count = 0 THEN len ELSE IF count < len THEN count ELSE len

(***************************************************************************)
(* Ipv6DelegateServer::request_delegation                                  *)
(***************************************************************************)
\* the OS commands: writes under /proc/sys, and runs of the `ip` tool
SysctlOps == {"sysctl forwarding", "sysctl proxy_ndp"}
IpOps == {"route replace", "neigh replace proxy", "addr replace"}
OsOps == SysctlOps \cup IpOps

\* the hosts of the model: everything works, /proc/sys is read-only, the
\* `ip` tool is missing or refused, nothing works
HostKinds == {{}, SysctlOps, IpOps, OsOps}

OsNew ==
    [forwarding |-> FALSE, proxy_ndp |-> {}, routes |-> {}, neigh |-> {},
     addrs |-> {}]

\* Ok(RequestDelegationResponse { addrs, error, server_overlay_ipv6 })
OkResponse(addrs, error, overlay) ==
    [result |-> "Ok", addrs |-> addrs, error |-> error,
     server_overlay_ipv6 |-> overlay]

\* Ipv6DelegateServer::new and a host on which nothing is installed yet
DelegNew ==
    /\ digests = << >>
    /\ os = OsNew
    /\ dpc = [k \in Tasks |-> "idle"]
    /\ request = [k \in Tasks |-> [requester_peer_id |-> 0, count |-> 0]]
    /\ prefixes = [k \in Tasks |-> << >>]
    /\ out = [k \in Tasks |-> << >>]
    /\ used_iids = [k \in Tasks |-> {}]
    /\ perturbed = [k \in Tasks |-> {}]
    /\ inst = [k \in Tasks |-> 0]
    /\ tun = [k \in Tasks |-> None]
    /\ oslog = [k \in Tasks |-> << >>]
    /\ resp = [k \in Tasks |-> None]
    /\ nreq = 0
    /\ delegated = {}

\* a server that never reads the flag
ServerEnabledAlways == TRUE

\* self.global_ctx.config.get_flags().enable_ipv6_delegate_server
ServerEnabled == enabled

\* lines 195-199
DisabledResponse == OkResponse(<< >>, "server disabled", None)

\* the block of lines 195-199 copied without its error text changed
NoPrefixResponseCopied == DisabledResponse

\* lines 203-207
NoPrefixResponse == OkResponse(<< >>, "no on-link /64 found", None)

\* a server that anchors itself at the last address of the batch
ServerOverlayIpv6Last(addrs) ==
    IF addrs = << >> THEN None ELSE Some(addrs[Len(addrs)].inet.address)

\* line 217: addrs.first().map(|(_, inet)| inet.address())
ServerOverlayIpv6(addrs) ==
    IF addrs = << >> THEN None ELSE Some(addrs[1].inet.address)

\* a request arrives; lines 189-200: the flag check
RequestDelegation(k, r, c) ==
    /\ dpc[k] \in {"idle", "done"}
    /\ nreq < MaxRequests
    /\ nreq' = nreq + 1
    /\ request' = [request EXCEPT ![k] = [requester_peer_id |-> r, count |-> c]]
    /\ prefixes' = [prefixes EXCEPT ![k] = << >>]
    /\ out' = [out EXCEPT ![k] = << >>]
    /\ used_iids' = [used_iids EXCEPT ![k] = {}]
    /\ perturbed' = [perturbed EXCEPT ![k] = {}]
    /\ inst' = [inst EXCEPT ![k] = 0]
    /\ tun' = [tun EXCEPT ![k] = None]
    /\ oslog' = [oslog EXCEPT ![k] = << >>]
    /\ IF ~ServerEnabled
       THEN /\ resp' = [resp EXCEPT ![k] = Some(DisabledResponse)]
            /\ dpc' = [dpc EXCEPT ![k] = "done"]
       ELSE /\ resp' = [resp EXCEPT ![k] = None]
            /\ dpc' = [dpc EXCEPT ![k] = "discover"]
    /\ UNCHANGED << enabled, digests, os, osFails, delegated >>
    /\ UNCHANGED notDelegVars

\* alloc_addrs_for_peer lines 107-118, and lines 202-208 when it returns
\* vec![]
Discover(k) ==
    /\ dpc[k] = "discover"
    /\ \E ifaddrs \in GetIfaddrs :
          LET found == ListOnlinkPrefixes(ifaddrs)
          IN  /\ prefixes' = [prefixes EXCEPT ![k] = found]
              /\ IF found = << >>
                 THEN /\ resp' = [resp EXCEPT ![k] = Some(NoPrefixResponse)]
                      /\ dpc' = [dpc EXCEPT ![k] = "done"]
                 ELSE /\ dpc' = [dpc EXCEPT ![k] = "derive"]
                      /\ UNCHANGED resp
    /\ UNCHANGED << enabled, digests, os, osFails, request, out, used_iids, perturbed,
                    inst, tun, oslog, nreq, delegated >>
    /\ UNCHANGED notDelegVars

\* one iteration of the for loop, lines 119-153; idx is out.len()
DeriveAddr(k) ==
    /\ dpc[k] = "derive"
    /\ Len(out[k]) < Want(request[k].count, Len(prefixes[k]))
    /\ LET entry == prefixes[k][Len(out[k]) + 1]
           bytes == HashInput(request[k].requester_peer_id, entry.inet)
       IN  \E digest \in Sha256(bytes) :
              LET iid == AvoidUsed(OrOne(digest), 0, used_iids[k])
              IN  /\ digests' = MapInsert(digests, bytes, digest)
                  /\ used_iids' = [used_iids EXCEPT ![k] = @ \cup {iid}]
                  /\ perturbed' =
                        [perturbed EXCEPT
                            ![k] = IF OrOne(digest) \in used_iids[k]
                                   THEN @ \cup {Len(out[k]) + 1}
                                   ELSE @]
                  /\ out' = [out EXCEPT
                                ![k] = Append(@, [iface |-> entry.iface,
                                                  inet |-> AssembleAddr(entry.inet,
                                                                        iid)])]
    /\ UNCHANGED << enabled, os, osFails, dpc, request, prefixes, inst, tun,
                    oslog, resp, nreq, delegated >>
    /\ UNCHANGED notDelegVars

\* get_tun_ifname(): the interface that owns the overlay IPv4, if any
GetTunIfname == {None, Some(Tun0)}

\* the loop is left (idx >= want or prefixes used up), addrs is not empty;
\* line 211: if let Some(tun) = self.get_tun_ifname()
LocateTun(k) ==
    /\ dpc[k] = "derive"
    /\ Len(out[k]) >= Want(request[k].count, Len(prefixes[k]))
    /\ \E found \in GetTunIfname :
          /\ tun' = [tun EXCEPT ![k] = found]
          /\ IF found = None
             THEN /\ dpc' = [dpc EXCEPT ![k] = "overlay"]
                  /\ UNCHANGED inst
             ELSE /\ dpc' = [dpc EXCEPT ![k] = "forwarding"]
                  /\ inst' = [inst EXCEPT ![k] = 1]
    /\ UNCHANGED << enabled, digests, os, osFails, request, prefixes, out, used_iids,
                    perturbed, oslog, resp, nreq, delegated >>
    /\ UNCHANGED notDelegVars

\* an OS command whose failure is propagated (`?`) instead of dropped: the
\* request ends with a fault
OsCommandPropagated(k, cmd, after, nextPc, nextInst) ==
    /\ oslog' = [oslog EXCEPT ![k] = Append(@, cmd)]
    /\ os' = IF cmd.op \in osFails THEN os ELSE after
    /\ IF cmd.op \in osFails
       THEN /\ dpc' = [dpc EXCEPT ![k] = "done"]
            /\ resp' = [resp EXCEPT ![k] = Some([result |-> "Err"])]
       ELSE /\ dpc' = [dpc EXCEPT ![k] = nextPc]
            /\ UNCHANGED resp
    /\ inst' = [inst EXCEPT ![k] = nextInst]
    /\ UNCHANGED << enabled, digests, osFails, request, prefixes, out,
                    used_iids, perturbed, tun, nreq, delegated >>
    /\ UNCHANGED notDelegVars

\* an OS command of task k runs: it is logged, it changes the kernel state to
\* `after` unless commands of its kind fail on this host (its status is
\* dropped: let _ = ...), and the task moves on
OsCommand(k, cmd, after, nextPc, nextInst) ==
    /\ oslog' = [oslog EXCEPT ![k] = Append(@, cmd)]
    /\ os' = IF cmd.op \in osFails THEN os ELSE after
    /\ dpc' = [dpc EXCEPT ![k] = nextPc]
    /\ inst' = [inst EXCEPT ![k] = nextInst]
    /\ UNCHANGED << enabled, digests, osFails, request, prefixes, out,
                    used_iids, perturbed, tun, resp, nreq, delegated >>
    /\ UNCHANGED notDelegVars

\* line 165: enable_sysctl("net/ipv6/conf/all/forwarding", "1")
EnableForwarding(k) ==
    /\ dpc[k] = "forwarding"
    /\ OsCommand(k, [op |-> "sysctl forwarding"],
                 [os EXCEPT !.forwarding = TRUE], "proxy_ndp", inst[k])

\* line 166: enable_sysctl("net/ipv6/conf/{iface}/proxy_ndp", "1")
EnableProxyNdp(k) ==
    /\ dpc[k] = "proxy_ndp"
    /\ LET iface == out[k][inst[k]].iface
       IN  OsCommand(k, [op |-> "sysctl proxy_ndp", dev |-> iface],
                     [os EXCEPT !.proxy_ndp = @ \cup {iface}], "route",
                     inst[k])

\* a replace that first flushes the routes of the tunnel interface
RoutesFlushed(routes, a, dev) == {<< a, dev >>}

\* ip -6 route replace: the route to a, if any, gives way to the new one
RoutesReplaced(routes, a, dev) ==
    {x \in routes : x[1] # a} \cup {<< a, dev >>}

\* lines 168-171: ip -6 route replace {addr}/128 dev {tun}
RouteReplace(k) ==
    /\ dpc[k] = "route"
    /\ LET a == out[k][inst[k]].inet.address
       IN  OsCommand(k, [op |-> "route replace", addr |-> a, dev |-> tun[k][1]],
                     [os EXCEPT !.routes = RoutesReplaced(@, a, tun[k][1])],
                     "neigh", inst[k])

\* an install that stops after the first address
InstallMoreFirstOnly(k) == FALSE

\* line 212, for (iface, inet) in &addrs: another element follows
InstallMore(k) == inst[k] < Len(out[k])

\* lines 173-176: ip -6 neigh replace proxy {addr} dev {iface}; then the
\* next element of addrs, or the end of the loop of line 212
NeighReplace(k) ==
    /\ dpc[k] = "neigh"
    /\ LET a == out[k][inst[k]].inet.address
           iface == out[k][inst[k]].iface
       IN  OsCommand(k, [op |-> "neigh replace proxy", addr |-> a, dev |-> iface],
                     [os EXCEPT !.neigh = @ \cup {<< a, iface >>}],
                     IF InstallMore(k) THEN "forwarding" ELSE "overlay",
                     IF InstallMore(k) THEN inst[k] + 1 ELSE inst[k])

\* the assignment handed to a spawned task: the response is built at once
\* and the command runs after the request has been answered
AssignOverlaySpawned(k) ==
    \/ /\ dpc[k] = "overlay"
       /\ resp' = [resp EXCEPT
                      ![k] = Some(OkResponse(
                                 [i \in 1 .. Len(out[k]) |-> out[k][i].inet],
                                 "", ServerOverlayIpv6(out[k])))]
       /\ dpc' = [dpc EXCEPT ![k] = "done"]
       /\ UNCHANGED << enabled, digests, os, osFails, request, prefixes, out,
                       used_iids, perturbed, inst, tun, oslog, nreq,
                       delegated >>
       /\ UNCHANGED notDelegVars
    \/ /\ dpc[k] = "done"
       /\ resp[k] # None
       /\ out[k] # << >>
       /\ \A j \in DOMAIN oslog[k] : oslog[k][j].op # "addr replace"
       /\ LET a == ServerOverlayIpv6(out[k])[1]
          IN  /\ oslog' = [oslog EXCEPT
                              ![k] = Append(@, [op |-> "addr replace",
                                                addr |-> a, dev |-> Tun0])]
              /\ os' = IF "addr replace" \in osFails THEN os
                       ELSE [os EXCEPT !.addrs = @ \cup {<< a, Tun0 >>}]
       /\ UNCHANGED << enabled, digests, osFails, dpc, request, prefixes, out,
                       used_iids, perturbed, inst, tun, resp, nreq,
                       delegated >>
       /\ UNCHANGED notDelegVars

\* lines 217-228: the first address is the server's overlay address; a
\* second get_tun_ifname(), and ip -6 addr replace {overlay}/128 dev {tun}
AssignOverlay(k) ==
    /\ dpc[k] = "overlay"
    /\ \E found \in GetTunIfname :
          IF found = None
          THEN /\ dpc' = [dpc EXCEPT ![k] = "respond"]
               /\ UNCHANGED << enabled, digests, os, osFails, request, prefixes, out,
                               used_iids, perturbed, inst, tun, oslog, resp,
                               nreq, delegated >>
               /\ UNCHANGED notDelegVars
          ELSE LET a == ServerOverlayIpv6(out[k])[1]
               IN  OsCommand(k, [op |-> "addr replace", addr |-> a,
                                 dev |-> found[1]],
                             [os EXCEPT !.addrs = @ \cup {<< a, found[1] >>}],
                             "respond", inst[k])

\* lines 229-234
Respond(k) ==
    /\ dpc[k] = "respond"
    /\ resp' = [resp EXCEPT
                   ![k] = Some(OkResponse(
                              [i \in 1 .. Len(out[k]) |-> out[k][i].inet], "",
                              ServerOverlayIpv6(out[k])))]
    /\ delegated' = delegated \cup
          {<< request[k].requester_peer_id, out[k][i].inet.address,
              i \in perturbed[k] >> : i \in 1 .. Len(out[k])}
    /\ dpc' = [dpc EXCEPT ![k] = "done"]
    /\ UNCHANGED << enabled, digests, os, osFails, request, prefixes, out, used_iids,
                    perturbed, inst, tun, oslog, nreq >>
    /\ UNCHANGED notDelegVars

(***************************************************************************)
(* Ipv6DelegateServer::list_onlink_prefixes on its own (DiscSpec)          *)
(***************************************************************************)
Lo == << "l", "o" >>
Wg0 == << "w", "g", "0" >>
Utun1 == << "u", "t", "u", "n", "1" >>
Veth1 == << "v", "e", "t", "h", "1" >>
BrLan == << "b", "r", "-", "l", "a", "n" >>
Virbr0 == << "v", "i", "r", "b", "r", "0" >>
\* names that only resemble a skipped prefix
Br0 == << "b", "r", "0" >>
W == << "w" >>

\* the entries of the delegation hosts, and for every test of lines 42-74
\* entries that fail exactly that test
DiscEntries ==
    IfaddrEntries \cup
    { Ifaddr(n, Sock6(Ipv6("global", 1, 1)), Sock6(NetmaskLen)) :
          n \in {Lo, Tun0, Wg0, Utun1, Veth1, BrLan, Virbr0, Br0, W} } \cup
    { Ifaddr(Eth0, Sock6(Ipv6(c, 1, 1)), Sock6(NetmaskLen)) :
          c \in {"multicast", "loopback", "unspecified", "unique_local"} } \cup
    { Ifaddr(Eth0, Sock6(Ipv6("global", 1, 1)), Sock6(m)) :
          m \in {0, NetmaskLen - 1, NetmaskLen + 1, NonContiguous} } \cup
    { Ifaddr(Eth0, Sock6(Ipv6("global", 1, 1)), None),
      Ifaddr(Eth0, Sock6(Ipv6("global", 1, 1)), Sock4(24)) }

DiscNew ==
    /\ getifaddrs = << >>
    /\ listed = None

\* getifaddrs() has returned its entries; list_onlink_prefixes has not run
DiscInit ==
    /\ getifaddrs \in SeqsUpTo(DiscEntries, MaxIfaddrs)
    /\ listed = None

\* list_onlink_prefixes(), lines 34-81
ListOnlink ==
    /\ listed = None
    /\ listed' = Some(ListOnlinkPrefixes(getifaddrs))
    /\ UNCHANGED << getifaddrs, allocVars, delegVars, policyVars >>

(***************************************************************************)
(* configure_source_policy_for_addr (PolicySpec)                           *)
(*                                                                         *)
(* Segment 7 of the address keeps its 16 bits here.                        *)
(***************************************************************************)
PolicyTableBase == 50000
PolicyTableMod == 4096
RulePriority == 1000
U16Max == 65535

\* _addr.segments()[7]
Segment7(a) == a.host[4]

\* a table id without the reduction
TableIdUnreduced(a) == PolicyTableBase + Segment7(a)

\* 50000u32 + (u16::from_be_bytes(_addr.segments()[7].to_be_bytes()) as u32
\*             % 4096)
TableId(a) == PolicyTableBase + (Segment7(a) % PolicyTableMod)

\* the addresses the function is called with: segment 7 around the
\* multiples of 4096 and at both ends of u16
PolicyAddrs ==
    { [class |-> "global", net |-> 1, host |-> << 0, 0, 0, s >>] :
          s \in {0, 1, PolicyTableMod - 1, PolicyTableMod, U16Max} }

PolicyOsNew == [rules |-> {}, routes |-> {}]

PolicyNew ==
    /\ ppc = "idle"
    /\ paddr = None
    /\ ptun = None
    /\ plog = << >>
    /\ pret = None
    /\ policy = PolicyOsNew

\* lines 245-264 (the tunnel lookup) and, when it finds nothing, line 292
ConfigureSourcePolicy(a) ==
    /\ ppc = "idle"
    /\ paddr' = Some(a)
    /\ plog' = << >>
    /\ \E found \in GetTunIfname :
          /\ ptun' = found
          /\ IF found = None
             THEN ppc' = "idle" /\ pret' = Some("Ok(())")
             ELSE ppc' = "rule_del" /\ pret' = None
    /\ UNCHANGED << policy, allocVars, delegVars, discVars >>

\* a command of the function runs: it is logged and changes the kernel state
\* to `after` if it succeeds; its status is dropped (let _ = ...)
PolicyCommand(cmd, after, nextPc) ==
    /\ plog' = Append(plog, cmd)
    /\ \E ok \in BOOLEAN : policy' = IF ok THEN after ELSE policy
    /\ ppc' = nextPc
    /\ UNCHANGED << paddr, ptun, allocVars, delegVars, discVars >>

\* lines 278-281: ip -6 rule del from {addr}/128 table {id} || true
RuleDel ==
    /\ ppc = "rule_del"
    /\ LET a == paddr[1]
           t == TableId(a)
       IN  PolicyCommand([op |-> "rule del", from |-> a, len |-> HostLen,
                          table |-> t],
                         [policy EXCEPT
                             !.rules = {x \in @ : ~(x[1] = a /\ x[2] = t)}],
                         "route")
    /\ UNCHANGED pret

\* lines 282-285: ip -6 route replace default dev {tun} table {id}
RouteDefault ==
    /\ ppc = "route"
    /\ LET t == TableId(paddr[1])
       IN  PolicyCommand([op |-> "route replace default", dev |-> ptun[1],
                          table |-> t],
                         [policy EXCEPT
                             !.routes = {x \in @ : x[1] # t}
                                            \cup {<< t, ptun[1] >>}],
                         "rule_add")
    /\ UNCHANGED pret

\* lines 286-289: ip -6 rule add from {addr}/128 table {id} priority 1000;
\* line 292: Ok(())
RuleAdd ==
    /\ ppc = "rule_add"
    /\ LET a == paddr[1]
           t == TableId(a)
       IN  PolicyCommand([op |-> "rule add", from |-> a, len |-> HostLen,
                          table |-> t, priority |-> RulePriority],
                         [policy EXCEPT
                             !.rules = @ \cup {<< a, t, RulePriority >>}],
                         "idle")
    /\ pret' = Some("Ok(())")

\* the allocator, beside a delegate server that receives no request
Init ==
    /\ AllocInit
    /\ enabled = FALSE
    /\ osFails = {}
    /\ DelegNew
    /\ DiscNew
    /\ PolicyNew

Next ==
    \/ \E t \in Threads, p \in Peers : Call(t, p)
    \/ \E t \in Threads : CacheGet(t)
    \/ \E t \in Threads : Lock(t)
    \/ \E t \in Threads : CheckFull(t)
    \/ \E t \in Threads : Advance(t)
    \/ \E t \in Threads : Insert(t)

Spec == Init /\ [][Next]_vars

\* The allocator used by callers whose allocate calls do not overlap in
\* time: a call begins only when no other call is running.
SeqCall(t, p) ==
    /\ \A u \in Threads : pc[u] = "idle"
    /\ Call(t, p)

SeqNext ==
    \/ \E t \in Threads, p \in Peers : SeqCall(t, p)
    \/ \E t \in Threads : CacheGet(t)
    \/ \E t \in Threads : Lock(t)
    \/ \E t \in Threads : CheckFull(t)
    \/ \E t \in Threads : Advance(t)
    \/ \E t \in Threads : Insert(t)

SeqSpec == Init /\ [][SeqNext]_vars

\* the delegate server, with either value of the flag, beside an allocator
\* nobody calls
DelegInit ==
    /\ AllocInit
    /\ hostBits = 0
    /\ prefixBase = 0
    /\ enabled \in BOOLEAN
    /\ osFails \in HostKinds
    /\ DelegNew
    /\ DiscNew
    /\ PolicyNew

DelegNext ==
    \/ \E k \in Tasks, r \in Requesters, c \in Counts : RequestDelegation(k, r, c)
    \/ \E k \in Tasks : Discover(k)
    \/ \E k \in Tasks : DeriveAddr(k)
    \/ \E k \in Tasks : LocateTun(k)
    \/ \E k \in Tasks : EnableForwarding(k)
    \/ \E k \in Tasks : EnableProxyNdp(k)
    \/ \E k \in Tasks : RouteReplace(k)
    \/ \E k \in Tasks : NeighReplace(k)
    \/ \E k \in Tasks : AssignOverlay(k)
    \/ \E k \in Tasks : Respond(k)

DelegSpec == DelegInit /\ [][DelegNext]_vars

\* The delegate server handling one request per task, the tasks running at
\* the same time (request_delegation is an async fn run once per incoming
\* request), on a host whose interfaces carry two on-link /64 prefixes.
ConcInit ==
    /\ AllocInit
    /\ hostBits = 0
    /\ prefixBase = 0
    /\ enabled = TRUE
    /\ osFails \in HostKinds
    /\ digests = << >>
    /\ os = OsNew
    /\ dpc = [k \in ConcTasks |-> "idle"]
    /\ request = [k \in ConcTasks |-> [requester_peer_id |-> 0, count |-> 0]]
    /\ prefixes = [k \in ConcTasks |-> << >>]
    /\ out = [k \in ConcTasks |-> << >>]
    /\ used_iids = [k \in ConcTasks |-> {}]
    /\ perturbed = [k \in ConcTasks |-> {}]
    /\ inst = [k \in ConcTasks |-> 0]
    /\ tun = [k \in ConcTasks |-> None]
    /\ oslog = [k \in ConcTasks |-> << >>]
    /\ resp = [k \in ConcTasks |-> None]
    /\ nreq = 0
    /\ delegated = {}
    /\ DiscNew
    /\ PolicyNew

\* task k takes the one request it handles; the requests of different tasks
\* come from different requesters
ConcRequest(k, c) ==
    /\ dpc[k] = "idle"
    /\ RequestDelegation(k, k, c)

\* discovery on that host: every enumeration yields MaxIfaddrs prefixes,
\* eth0's first (the following ones lie in the same /64 or in another)
ConcDiscover(k) ==
    /\ Discover(k)
    /\ Len(prefixes'[k]) = MaxIfaddrs
    /\ prefixes'[k][1].iface = Eth0

ConcNext ==
    \/ \E k \in ConcTasks, c \in Counts : ConcRequest(k, c)
    \/ \E k \in ConcTasks : ConcDiscover(k)
    \/ \E k \in ConcTasks : DeriveAddr(k)
    \/ \E k \in ConcTasks : LocateTun(k)
    \/ \E k \in ConcTasks : EnableForwarding(k)
    \/ \E k \in ConcTasks : EnableProxyNdp(k)
    \/ \E k \in ConcTasks : RouteReplace(k)
    \/ \E k \in ConcTasks : NeighReplace(k)
    \/ \E k \in ConcTasks : AssignOverlay(k)
    \/ \E k \in ConcTasks : Respond(k)

ConcSpec == ConcInit /\ [][ConcNext]_vars

\* host without a call in flight, hostBits fixed: what the specifications of
\* a single function start from
Quiet ==
    /\ AllocInit
    /\ hostBits = 0
    /\ prefixBase = 0
    /\ enabled = FALSE
    /\ osFails = {}
    /\ DelegNew

\* list_onlink_prefixes applied to one enumeration of the interfaces
DiscSpecInit == Quiet /\ DiscInit /\ PolicyNew

DiscSpec == DiscSpecInit /\ [][ListOnlink]_vars

\* configure_source_policy_for_addr called again and again
PolicyInit == Quiet /\ DiscNew /\ PolicyNew

PolicyNext ==
    \/ \E a \in PolicyAddrs : ConfigureSourcePolicy(a)
    \/ RuleDel
    \/ RouteDefault
    \/ RuleAdd

PolicySpec == PolicyInit /\ [][PolicyNext]_vars

(***************************************************************************)
(* Properties of Ipv6Allocator                                             *)
(***************************************************************************)
\* the step on which thread t's call returns
Completes(t) == pc[t] # "idle" /\ pc'[t] = "idle"

\* the requester ids to which some call has returned an address
Served == {x[1] : x \in returned}

\* C1: two concurrent first-time allocate calls for the same requester id
\* return the same address.  A call that found no cached address (missed) and
\* returns while `returned` already holds an address for its requester id
\* overlapped the first-time call that inserted that address, so the claim
\* is: such a call returns that very address.
C1_ConcurrentFirstTimeSameAddress ==
    [][\A t \in Threads :
          (Completes(t) /\ missed[t]) =>
              \A x \in returned : x[1] = peer[t] => ret'[t] = Some(x[2])]_vars

\* C2: with non-overlapping calls (SeqSpec), once a call for a requester id
\* has returned address a, every later call for that id returns a.
C2_SequentialIdempotence ==
    [][\A t \in Threads :
          Completes(t) =>
              \A x \in returned : x[1] = peer[t] => ret'[t] = Some(x[2])]_vars

\* C2 witness: on the widest prefix the space is exhausted, and two calls
\* (one per thread) have returned the same address: the second is a repeated
\* call for the requester of the first, made after the other allocations.
C2_Witness ==
    /\ hostBits = MaxHostBits
    /\ next = MaxHosts
    /\ DOMAIN ret = Threads
    /\ \E a \in {x[2] : x \in returned} : \A t \in Threads : ret[t] = Some(a)

\* C3: no address is ever returned to two distinct requester ids.
C3_Uniqueness ==
    \A x \in returned : \A y \in returned : x[1] # y[1] => x[2] # y[2]

\* C3 witness: three distinct requester ids have been returned addresses.
C3_Witness == Cardinality(Served) >= 3

\* C4: once 2^h - 1 distinct requester ids have been returned an address,
\* every call that finds no cached address returns None, from then on.
Exhausted == Cardinality(Served) >= MaxHosts - 1

C4_BoundedCapacity ==
    [][Exhausted =>
          /\ Exhausted'
          /\ \A t \in Threads :
                 (Completes(t) /\ missed[t]) => ret'[t] = None]_vars

\* C4 witness: on a prefix with at least two host bits all 2^h - 1 addresses
\* are out and a further requester has been refused.
C4_Witness ==
    /\ hostBits >= 2
    /\ Exhausted
    /\ \E t \in DOMAIN ret : ret[t] = None

\* C5: an entry of the requester-to-address cache is never removed and never
\* replaced by a different address.
C5_CacheEntryStable ==
    [][\A p \in DOMAIN assigned :
          p \in DOMAIN assigned' /\ assigned'[p] = assigned[p]]_vars

\* C17: the cursor stays within 1 .. 2^h and never decreases; when it
\* moves, it moves by one, in the call that formed its address from the old
\* value; a first-time call that returns an address returns prefixBase + c
\* for the cursor value c it consumed (the cursor is c + 1 when it returns),
\* an address inside the prefix other than its base; a call that returns
\* nothing leaves the cursor and the cache as they were.
C17_CursorAndAddress ==
    [][/\ 1 <= next /\ next <= Pow2(hostBits)
       /\ next' >= next /\ next' <= Pow2(hostBits)
       /\ next' # next =>
              /\ next' = next + 1
              /\ \E t \in Threads :
                     pc[t] = "advance" /\ addr[t] = prefixBase + next
       /\ \A t \in Threads :
              /\ (Completes(t) /\ missed[t] /\ ret'[t] # None) =>
                     /\ ret'[t] = Some(prefixBase + (next - 1))
                     /\ ret'[t][1] > prefixBase
                     /\ ret'[t][1] < prefixBase + Pow2(hostBits)
              /\ (Completes(t) /\ ret'[t] = None) =>
                     /\ next' = next
                     /\ assigned' = assigned]_vars

\* C17 witness: on the widest prefix, with a base other than zero, one thread
\* was returned the last address of the prefix and the other was refused.
C17_Witness ==
    /\ hostBits = MaxHostBits
    /\ prefixBase # 0
    /\ next = Pow2(hostBits)
    /\ \E t \in DOMAIN ret : ret[t] = None
    /\ \E t \in DOMAIN ret : ret[t] = Some(prefixBase + Pow2(hostBits) - 1)

\* C18: whenever no allocate call is in progress, the cache holds cursor - 1
\* requester ids and the cached addresses are exactly prefixBase + 1 ..
\* prefixBase + (cursor - 1).
C18_CursorMatchesCache ==
    (\A t \in Threads : pc[t] = "idle") =>
        /\ Cardinality(DOMAIN assigned) = next - 1
        /\ {assigned[p] : p \in DOMAIN assigned}
               = {prefixBase + i : i \in 1 .. next - 1}

(***************************************************************************)
(* Properties of Ipv6DelegateServer                                        *)
(***************************************************************************)
\* the request of task k has been answered
Answered(k) == dpc[k] = "done" /\ resp[k] # None

\* the network an address lies in: everything but segments 4..7
NetOf(a) == << a.class, a.net >>

\* C6: with the flag disabled every request, whatever its requester id and
\* count, gets the normal response {addrs: [], error: "server disabled",
\* server_overlay_ipv6: None}, has issued no OS command, and the kernel state
\* is as it was.
C6_DisabledResponse ==
    ~enabled =>
        /\ os = OsNew
        /\ \A k \in Tasks :
              dpc[k] = "done" =>
                  /\ resp[k] = Some([result |-> "Ok", addrs |-> << >>,
                                     error |-> "server disabled",
                                     server_overlay_ipv6 |-> None])
                  /\ oslog[k] = << >>

\* C6 witness: the flag is disabled and the second request, for requester 2
\* with count 1, has been answered.
C6_Witness ==
    /\ ~enabled
    /\ nreq = 2
    /\ \E k \in Tasks :
          /\ Answered(k)
          /\ request[k] = [requester_peer_id |-> 2, count |-> 1]

\* C7: with the flag enabled, the step that answers a request whose
\* discovery found no prefix answers with the normal response {addrs: [],
\* error: "no on-link /64 found", server_overlay_ipv6: None}; the request has
\* issued no OS command and the step leaves the kernel state as it was.
C7_NoPrefixResponse ==
    [][\A k \in Tasks :
          (enabled /\ dpc[k] # "done" /\ dpc'[k] = "done"
                   /\ prefixes'[k] = << >>) =>
              /\ resp'[k] = Some([result |-> "Ok", addrs |-> << >>,
                                  error |-> "no on-link /64 found",
                                  server_overlay_ipv6 |-> None])
              /\ oslog'[k] = << >>
              /\ os' = os]_vars

\* C7 witness: after an earlier request that installed addresses, a request
\* with count 2 found no prefix and has been answered.
C7_Witness ==
    /\ enabled
    /\ os # OsNew
    /\ \E k \in Tasks :
          /\ Answered(k)
          /\ prefixes[k] = << >>
          /\ request[k].count = 2

\* C8: with the flag enabled and n >= 1 discovered prefixes, the response
\* holds n addresses if count = 0 and min(count, n) otherwise, and its i-th
\* address lies in the i-th discovered prefix.
C8_CountSemantics ==
    \A k \in Tasks :
        (enabled /\ dpc[k] = "done" /\ prefixes[k] # << >>) =>
            LET n == Len(prefixes[k])
                c == request[k].count
                addrs == resp[k][1].addrs
            IN  /\ Len(addrs) = IF c = 0 THEN n ELSE IF c < n THEN c ELSE n
                /\ \A i \in 1 .. Len(addrs) :
                      /\ NetOf(addrs[i].address)
                             = NetOf(prefixes[k][i].inet.address)
                      /\ addrs[i].network_length = HostLen

\* C8 witness: two prefixes in different networks were discovered, count was
\* 1, and the response holds one address.
C8_Witness ==
    \E k \in Tasks :
        /\ Answered(k)
        /\ Len(prefixes[k]) = 2
        /\ NetOf(prefixes[k][1].inet.address)
               # NetOf(prefixes[k][2].inet.address)
        /\ request[k].count = 1
        /\ Len(resp[k][1].addrs) = 1

\* C9: within one batch the host identifiers are pairwise distinct and no
\* two addresses are identical, also in the response.
C9_BatchDistinct ==
    \A k \in Tasks :
        /\ \A i \in 1 .. Len(out[k]) : \A j \in 1 .. Len(out[k]) :
              i # j =>
                  /\ HostValue(out[k][i].inet.address)
                         # HostValue(out[k][j].inet.address)
                  /\ out[k][i].inet.address # out[k][j].inet.address
        /\ Answered(k) =>
              \A i \in DOMAIN resp[k][1].addrs :
                  \A j \in DOMAIN resp[k][1].addrs :
                      i # j => resp[k][1].addrs[i] # resp[k][1].addrs[j]

\* C9 witness: a response of two addresses in the same network, the second
\* of which went through the while loop.
C9_Witness ==
    \E k \in Tasks :
        /\ Answered(k)
        /\ Len(resp[k][1].addrs) = 2
        /\ NetOf(resp[k][1].addrs[1].address)
               = NetOf(resp[k][1].addrs[2].address)
        /\ 2 \in perturbed[k]

\* C10: any two addresses delegated to one requester inside one prefix are
\* the same address.
C10_Reproducible ==
    \A x \in delegated : \A y \in delegated :
        (x[1] = y[1] /\ NetOf(x[2]) = NetOf(y[2])) => x[2] = y[2]

\* C10 as amended: any two addresses delegated to one requester inside one
\* prefix, neither of which was changed by the in-batch while loop, are the
\* same address.
C10_ReproducibleUnlessPerturbed ==
    \A x \in delegated : \A y \in delegated :
        (x[1] = y[1] /\ NetOf(x[2]) = NetOf(y[2]) /\ ~x[3] /\ ~y[3])
            => x[2] = y[2]

\* C10 witness: the second request is about to answer with two addresses;
\* its second address was not changed by the while loop and is the address
\* the first request delegated to the same requester in that prefix.
C10_Witness ==
    \E k \in Tasks :
        /\ nreq = 2
        /\ dpc[k] = "respond"
        /\ Len(out[k]) = 2
        /\ 2 \notin perturbed[k]
        /\ << request[k].requester_peer_id, out[k][2].inet.address, FALSE >>
               \in delegated

\* the response that the flag, the discovered prefixes, the requester id and
\* the count determine: the addresses of the first n of the prefixes pfxs
\* for requester r, by the digests of SHA-256
RECURSIVE C11_Addrs(_, _, _)
C11_Addrs(r, pfxs, n) ==
    IF n = 0 THEN << >>
    ELSE LET before == C11_Addrs(r, pfxs, n - 1)
             used == {HostValue(before[i].address) : i \in DOMAIN before}
             iid == AvoidUsed(OrOne(digests[HashInput(r, pfxs[n].inet)]), 0,
                              used)
         IN  Append(before, AssembleAddr(pfxs[n].inet, iid))

C11_Response(flag, pfxs, r, c) ==
    IF ~flag
    THEN [result |-> "Ok", addrs |-> << >>, error |-> "server disabled",
          server_overlay_ipv6 |-> None]
    ELSE IF pfxs = << >>
    THEN [result |-> "Ok", addrs |-> << >>, error |-> "no on-link /64 found",
          server_overlay_ipv6 |-> None]
    ELSE LET n == IF c = 0 \/ c > Len(pfxs) THEN Len(pfxs) ELSE c
             addrs == C11_Addrs(r, pfxs, n)
         IN  [result |-> "Ok", addrs |-> addrs, error |-> "",
              server_overlay_ipv6 |-> Some(addrs[1].address)]

\* C11: the response of every answered request is the one determined by the
\* flag, the discovered prefixes, the requester id and the count alone, on
\* every host (whatever OS commands fail there) and whether or not the
\* tunnel interface was found; it is never a fault.
C11_ResponseIgnoresOs ==
    \A k \in Tasks :
        Answered(k) =>
            resp[k] = Some(C11_Response(enabled, prefixes[k],
                                        request[k].requester_peer_id,
                                        request[k].count))

\* C11 witness: on a host where every OS command fails, a request that found
\* the tunnel interface and ran its commands has been answered with two
\* addresses.
C11_Witness ==
    /\ osFails = OsOps
    /\ \E k \in Tasks :
          /\ Answered(k)
          /\ tun[k] # None
          /\ oslog[k] # << >>
          /\ Len(resp[k][1].addrs) = 2

\* C12: in every response, error is "" iff addrs is not empty iff
\* server_overlay_ipv6 is present, and a present server_overlay_ipv6 is the
\* address of the first element of addrs.
C12_ResponseShape ==
    \A k \in Tasks :
        Answered(k) =>
            LET r == resp[k][1]
            IN  /\ (r.error = "") <=> (r.addrs # << >>)
                /\ (r.error = "") <=> (r.server_overlay_ipv6 # None)
                /\ r.server_overlay_ipv6 # None =>
                       r.server_overlay_ipv6 = Some(r.addrs[1].address)

\* C12 witness: a response with two different addresses whose
\* server_overlay_ipv6 is the first of them.
C12_Witness ==
    \E k \in Tasks :
        /\ Answered(k)
        /\ Len(resp[k][1].addrs) = 2
        /\ resp[k][1].addrs[1] # resp[k][1].addrs[2]
        /\ resp[k][1].server_overlay_ipv6
               = Some(resp[k][1].addrs[1].address)

\* the request of task k has been answered with addresses
Succeeded(k) == Answered(k) /\ resp[k][1].error = ""

\* the commands of install_ndp_proxy_and_route for the i-th address of task
\* k's batch, as the claim lists them
C13_Install(k, i) ==
    LET a == out[k][i].inet.address
        donor == out[k][i].iface
    IN  << [op |-> "sysctl forwarding"],
           [op |-> "sysctl proxy_ndp", dev |-> donor],
           [op |-> "route replace", addr |-> a, dev |-> Tun0],
           [op |-> "neigh replace proxy", addr |-> a, dev |-> donor] >>

C13_Assign(k, i) ==
    [op |-> "addr replace", addr |-> out[k][i].inet.address, dev |-> Tun0]

C13_Attempted(k, cmd) == \E j \in DOMAIN oslog[k] : oslog[k][j] = cmd

C14_StepOrder ==
    [][/\ \A k \in ConcTasks :
             /\ prefixes'[k] # prefixes[k] =>
                    /\ prefixes[k] = << >>
                    /\ out[k] = << >> /\ out'[k] = << >>
                    /\ oslog[k] = << >> /\ oslog'[k] = << >>
                    /\ resp[k] = None /\ resp'[k] = None
             /\ out'[k] # out[k] =>
                    /\ prefixes[k] # << >> /\ prefixes'[k] = prefixes[k]
                    /\ oslog[k] = << >> /\ oslog'[k] = << >>
                    /\ resp[k] = None /\ resp'[k] = None
             /\ oslog'[k] # oslog[k] =>
                    /\ prefixes'[k] = prefixes[k]
                    /\ out'[k] = out[k]
                    /\ Len(out[k]) =
                           IF request[k].count = 0
                                  \/ request[k].count > Len(prefixes[k])
                           THEN Len(prefixes[k]) ELSE request[k].count
                    /\ resp[k] = None /\ resp'[k] = None
             /\ resp[k] # None =>
                    /\ prefixes'[k] = prefixes[k]
                    /\ out'[k] = out[k]
                    /\ oslog'[k] = oslog[k]
                    /\ resp'[k] = resp[k]
       /\ os' # os =>
              \E k \in ConcTasks :
                  /\ Len(oslog'[k]) = Len(oslog[k]) + 1
                  /\ resp'[k] = None]_vars

\* C14 witness: one request is answered after running all its commands for
\* two addresses, while the other request, which ran commands of its own in
\* between, is still installing.
C14_Witness ==
    \E k \in ConcTasks : \E j \in ConcTasks :
        /\ Succeeded(k)
        /\ Len(oslog[k]) = 9
        /\ dpc[j] = "neigh"
        /\ inst[j] = 2

(***************************************************************************)
(* Properties of list_onlink_prefixes                                      *)
(***************************************************************************)
\* an interface entry that meets the conditions of the claim
C15_Qualifies(e) ==
    /\ \A p \in { << "l", "o" >>, << "t", "u", "n" >>,
                  << "u", "t", "u", "n" >>, << "w", "g" >>,
                  << "d", "o", "c", "k", "e", "r" >>,
                  << "v", "e", "t", "h" >>, << "b", "r", "-" >>,
                  << "v", "i", "r", "b", "r" >> } :
          ~StartsWith(e.interface_name, p)
    /\ e.address # None
    /\ e.netmask # None
    /\ e.address[1].family = "Inet6"
    /\ e.netmask[1].family = "Inet6"
    /\ e.address[1].ip.class \notin {"multicast", "loopback", "unspecified",
                                     "unique_local", "link_local"}
    /\ e.netmask[1].ip = 64

\* C15: the discovery output is, in enumeration order, one (interface name,
\* /64 network) entry for each interface entry that meets the conditions,
\* and nothing else: an entry whose netmask is no 64-bit prefix, be it a
\* netmask that converts to no prefix length, yields nothing.
C15_DiscoveryFilter ==
    listed # None =>
        LET q == SelectSeq(getifaddrs, C15_Qualifies)
        IN  listed[1] = [i \in 1 .. Len(q) |->
                            [iface |-> q[i].interface_name,
                             inet |-> [address |-> q[i].address[1].ip,
                                       network_length |-> 64]]]

(***************************************************************************)
(* Properties of the identifier derivation                                 *)
(***************************************************************************)
\* C16: no address of a response has the all-zero host identifier, whatever
\* the digests are and whether or not the while loop changed the identifier.
C16_HostIdentifierNonZero ==
    \A k \in Tasks :
        Answered(k) =>
            \A i \in DOMAIN resp[k][1].addrs :
                /\ HostValue(resp[k][1].addrs[i].address) # 0
                /\ resp[k][1].addrs[i].address.host # << 0, 0, 0, 0 >>

(***************************************************************************)
(* Properties of concurrent requests                                       *)
(***************************************************************************)
\* what a command that succeeds leaves behind, each entry keyed by its exact
\* interface and address
C19_Apply(s, cmd) ==
    IF cmd.op \in osFails THEN s
    ELSE IF cmd.op = "sysctl forwarding" THEN [s EXCEPT !.forwarding = TRUE]
    ELSE IF cmd.op = "sysctl proxy_ndp"
    THEN [s EXCEPT !.proxy_ndp = @ \cup {cmd.dev}]
    ELSE IF cmd.op = "route replace"
    THEN [s EXCEPT !.routes = {x \in @ : x[1] # cmd.addr}
                                  \cup {<< cmd.addr, cmd.dev >>}]
    ELSE IF cmd.op = "neigh replace proxy"
    THEN [s EXCEPT !.neigh = @ \cup {<< cmd.addr, cmd.dev >>}]
    ELSE [s EXCEPT !.addrs = @ \cup {<< cmd.addr, cmd.dev >>}]

\* the commands of one request run one after the other from state s
RECURSIVE C19_Run(_, _)
C19_Run(s, log) ==
    IF log = << >> THEN s ELSE C19_Run(C19_Apply(s, Head(log)), Tail(log))

\* C19: when two requests handled at the same time have both been answered,
\* the kernel state is, whatever the interleaving of their commands was, the
\* state that the commands of the first followed by those of the second
\* leave, and the state that the commands of the second followed by those of
\* the first leave.
C19_Convergent ==
    (\A k \in ConcTasks : dpc[k] = "done") =>
        /\ os = C19_Run(C19_Run(OsNew, oslog[1]), oslog[2])
        /\ os = C19_Run(C19_Run(OsNew, oslog[2]), oslog[1])

\* C19 witness: the two requests found the same prefixes, both located the
\* tunnel interface and ran all nine commands for two addresses each, and the
\* kernel holds the routes of both, one address being routed for both.
C19_Witness ==
    /\ \A k \in ConcTasks :
          /\ Succeeded(k)
          /\ Len(oslog[k]) = 9
    /\ prefixes[1] = prefixes[2]
    /\ Cardinality(os.routes) = 3
    /\ \E i \in DOMAIN out[1] : \E j \in DOMAIN out[2] :
           out[1][i].inet = out[2][j].inet

(***************************************************************************)
(* Properties of configure_source_policy_for_addr                          *)
(***************************************************************************)
\* the three commands of the claim for address a and tunnel interface dev
C20_Commands(a, dev) ==
    LET t == 50000 + (a.host[4] % 4096)
    IN  << [op |-> "rule del", from |-> a, len |-> 128, table |-> t],
           [op |-> "route replace default", dev |-> dev, table |-> t],
           [op |-> "rule add", from |-> a, len |-> 128, table |-> t,
            priority |-> 1000] >>

\* C20: a call that located the tunnel interface runs, in this order and
\* whether or not any of them fails, rule del, route replace default and
\* rule add, all with table id 50000 + (segment 7 mod 4096), which lies in
\* 50000 .. 54095; it has run all three when it returns, and every call
\* returns Ok(()).
C20_ReturnPolicy ==
    /\ pret # None => pret = Some("Ok(())")
    /\ (paddr # None /\ ptun # None) =>
           LET cmds == C20_Commands(paddr[1], ptun[1])
           IN  /\ Len(plog) <= 3
               /\ plog = SubSeq(cmds, 1, Len(plog))
               /\ pret # None => plog = cmds
               /\ \A i \in DOMAIN plog :
                      plog[i].table >= 50000 /\ plog[i].table <= 54095

\* C20 witness: a call for an address whose segment 7 is 65535 located the
\* tunnel interface and returned; its route command failed (table 54095 has
\* no route) and its rule add was still run and took effect.
C20_Witness ==
    /\ pret # None
    /\ ptun # None
    /\ paddr[1].host[4] = 65535
    /\ Len(plog) = 3
    /\ policy.routes = {}
    /\ \E x \in policy.rules : x[1] = paddr[1] /\ x[2] = 54095

====
